---- MODULE Spec2Model ----
(***************************************************************************)
(* A model of the stock-return analysis pipeline of masco_2025.py as it is *)
(* driven by one page load of app.py: load_data, run_regressions, the      *)
(* on-screen regression table, the two charts with the distribution fit    *)
(* and the CDF data, the PDF report and the exports.  Spec is one page     *)
(* load and SpecProcess the successive page loads of one process; SpecLoad,*)
(* SpecCell, SpecFit and SpecReport run load_data, create_cell_value, the  *)
(* distribution functions and generate_pdf_report alone.                   *)
(*                                                                         *)
(* Numbers.  A price is a positive integer.  A log return ln(a / b) is     *)
(* kept as the pair of prices it is computed from, so that two returns are *)
(* equal exactly when a * d = c * b.  A fitted statistic is a decimal      *)
(* number in units of 10^-5.  Every float carries its IEEE kind: "fin",    *)
(* "nan" or "inf".  The distribution functions read a return as an integer *)
(* in units of 10^-5; the mean of equal doubles is computed bit by bit.    *)
(***************************************************************************)
EXTENDS Integers, Sequences, FiniteSets, TLC

VARIABLES
    pc,              \* position of the run in app.py
    start_date,      \* first month of the requested date range
    end_date,        \* last month of the requested date range
    calendar,        \* what the exchanges quoted on each trading day
    raw,             \* load_data: the aligned daily prices
    monthly_prices,  \* load_data: the month-end prices
    returns,         \* the ReturnSeries handed to the rest of the run
    regressions,     \* the list run_regressions returned
    regression_df,   \* the table shown on screen
    table_data,      \* generate_pdf_report: the table put in the PDF
    cell_call,       \* one call of create_cell_value: arguments and locals
    outputs,         \* what the run has put on the page so far
    error,           \* the exception that ended the run, "" if none
    fig_normal,      \* the figure plot_normal_distribution returned
    fig_cdf,         \* the figure plot_cdf returned
    elements,        \* generate_pdf_report: the flowables of the document
    reports,         \* the documents of successive generate_pdf_report calls
    sample,          \* a sequence of returns given to the distribution fit
    fit_call,        \* one call of norm.fit on the sample
    cdf_call,        \* one call of the CDF data on the sample
    figs,            \* pyplot's registry of figures, kept by the process
    runs             \* the page loads the process has started

load_vars == <<start_date, end_date, calendar, raw, monthly_prices, returns>>
table_vars == <<regressions, regression_df, table_data>>
page_vars == <<outputs, error>>
chart_vars == <<fig_normal, fig_cdf>>
report_vars == <<elements, reports>>
fit_vars == <<sample, fit_call, cdf_call>>
process_vars == <<figs, runs>>
vars == <<pc, load_vars, table_vars, cell_call, page_vars, chart_vars,
          report_vars, fit_vars, process_vars>>

\* ------------------------------------------------------------------------
\* Bounds of the model.
NMonths == 6
LoadMonths == 4
NDays == 2

Months == 1..NMonths
Days == 1..NDays

\* ------------------------------------------------------------------------
\* Floats.
NaN == [kind |-> "nan", v |-> 0]
Inf == [kind |-> "inf", v |-> 0]
NegInf == [kind |-> "inf", v |-> -1]
Fin(x) == [kind |-> "fin", v |-> x]
isna(x) == x.kind = "nan"

\* ------------------------------------------------------------------------
\* Sequence helpers.
RECURSIVE SelectRows(_, _)
SelectRows(keep(_), rows) ==
    IF rows = <<>> THEN <<>>
    ELSE IF keep(Head(rows)) THEN <<Head(rows)>> \o SelectRows(keep, Tail(rows))
         ELSE SelectRows(keep, Tail(rows))

Range(s) == {s[i] : i \in DOMAIN s}

IndexOf(s, x) == CHOOSE i \in DOMAIN s : s[i] = x

\* ------------------------------------------------------------------------
\* The price data source (yfinance), an external collaborator.
stock_ticker == "MAS"

\* load_data, line 34: the tickers in the order they are requested.
tickers == <<stock_ticker, "^GSPC", "^W5000", "^TYX">>

\* The price of a ticker on day d of month m.  The value names its ticker
\* and its day, so that a month-end price tells which observation it is.
Quote(t, m, d) == 1000 * IndexOf(tickers, t) + 10 * m + d

\* What a trading day holds: every ticker quoted, the stock exchanges open
\* but no Treasury yield published, or no row at all.
DayKinds == {"full", "no_tyx", "closed"}

Missing(kind) ==
    CASE kind = "full" -> {}
      [] kind = "no_tyx" -> {"^TYX"}
      [] OTHER -> Range(tickers)

\* yf.download sorts the columns of its result by ticker symbol, whatever
\* the order of the request: an upper-case symbol sorts before "^", and
\* "^GSPC" < "^TYX" < "^W5000".
SortedTickers == <<stock_ticker, "^GSPC", "^TYX", "^W5000">>

\* The rows of the days of months m..last, from day d of month m on.
RECURSIVE DayRows(_, _, _, _, _)
DayRows(cal, cols, m, d, last) ==
    IF m > last THEN <<>>
    ELSE IF d > NDays THEN DayRows(cal, cols, m + 1, 1, last)
    ELSE LET rest == DayRows(cal, cols, m, d + 1, last)
             row == [date |-> <<m, d>>,
                     vals |-> [j \in DOMAIN cols |->
                                 IF cols[j] \in Missing(cal[<<m, d>>])
                                 THEN NaN ELSE Fin(Quote(cols[j], m, d))]]
         IN IF cal[<<m, d>>] = "closed" THEN rest ELSE <<row>> \o rest

\* yf.download(tickers, start, end)["Adj Close"]
download(cal, start, end) ==
    [columns |-> SortedTickers,
     rows |-> DayRows(cal, SortedTickers, start, 1, end)]

\* ------------------------------------------------------------------------
\* pandas operations used by load_data.

\* df.columns = names: the labels are assigned by position.
set_columns(df, names) == [df EXCEPT !.columns = names]

HasNa(row) == \E j \in DOMAIN row.vals : isna(row.vals[j])

\* df.dropna(): the rows with no missing value, in order.
dropna(df) == [df EXCEPT !.rows = SelectRows(LAMBDA r : ~HasNa(r), df.rows)]

\* The last value of column j that is not missing among the rows, if any.
RECURSIVE LastValid(_, _)
LastValid(rows, j) ==
    IF rows = <<>> THEN NaN
    ELSE LET r == rows[Len(rows)]
         IN IF isna(r.vals[j]) THEN LastValid(SubSeq(rows, 1, Len(rows) - 1), j)
            ELSE r.vals[j]

\* The months of first..last, in order, that satisfy has.
RECURSIVE MonthsWith(_, _, _)
MonthsWith(has(_), first, last) ==
    IF first > last THEN <<>>
    ELSE IF has(first) THEN <<first>> \o MonthsWith(has, first + 1, last)
         ELSE MonthsWith(has, first + 1, last)

\* The first value of every month instead of the last.
resample_first(df) ==
    IF df.rows = <<>> THEN [columns |-> df.columns, rows |-> <<>>]
    ELSE LET first == df.rows[1].date[1]
             last == df.rows[Len(df.rows)].date[1]
             InMonth(m) == SelectRows(LAMBDA r : r.date[1] = m, df.rows)
         IN [columns |-> df.columns,
             rows |-> [i \in 1..(last - first + 1) |->
                        [date |-> first + i - 1,
                         vals |-> [j \in DOMAIN df.columns |->
                                     IF InMonth(first + i - 1) = <<>> THEN NaN
                                     ELSE InMonth(first + i - 1)[1].vals[j]]]]]

\* A row only for the months that hold a row, as a group-by gives.
resample_skip_empty(df) ==
    IF df.rows = <<>> THEN [columns |-> df.columns, rows |-> <<>>]
    ELSE LET InMonth(m) == SelectRows(LAMBDA r : r.date[1] = m, df.rows)
             ms == MonthsWith(LAMBDA m : InMonth(m) # <<>>,
                              df.rows[1].date[1], df.rows[Len(df.rows)].date[1])
         IN [columns |-> df.columns,
             rows |-> [i \in DOMAIN ms |->
                        [date |-> ms[i],
                         vals |-> [j \in DOMAIN df.columns |->
                                     LastValid(InMonth(ms[i]), j)]]]]

\* df.resample("ME").last(): one row per calendar month from the month of
\* the first row to the month of the last row, empty months included.
resample_last(df) ==
    IF df.rows = <<>> THEN [columns |-> df.columns, rows |-> <<>>]
    ELSE LET first == df.rows[1].date[1]
             last == df.rows[Len(df.rows)].date[1]
             InMonth(m) == SelectRows(LAMBDA r : r.date[1] = m, df.rows)
         IN [columns |-> df.columns,
             rows |-> [i \in 1..(last - first + 1) |->
                        [date |-> first + i - 1,
                         vals |-> [j \in DOMAIN df.columns |->
                                     LastValid(InMonth(first + i - 1), j)]]]]

\* df.shift(1): every row holds the values of the row before it.
shift(df) ==
    [df EXCEPT !.rows =
        [i \in DOMAIN df.rows |->
            [date |-> df.rows[i].date,
             vals |-> [j \in DOMAIN df.columns |->
                         IF i = 1 THEN NaN ELSE df.rows[i - 1].vals[j]]]]]

\* np.log(a / b), elementwise.
LogRatio(a, b) ==
    IF isna(a) \/ isna(b) THEN NaN
    ELSE [kind |-> "fin", v |-> <<a.v, b.v>>]

log_div(df, prev) ==
    [df EXCEPT !.rows =
        [i \in DOMAIN df.rows |->
            [date |-> df.rows[i].date,
             vals |-> [j \in DOMAIN df.columns |->
                         LogRatio(df.rows[i].vals[j], prev.rows[i].vals[j])]]]]

\* ------------------------------------------------------------------------
\* load_data
columns == <<stock_ticker, "SP500", "VW", "TYX">>

load_raw(cal, start, end) ==
    dropna(set_columns(download(cal, start, end), columns))

load_monthly_prices(r) == resample_last(r)

\* The returns with the rows of missing values kept.
load_returns_keep_na(mp) == log_div(mp, shift(mp))

load_returns(mp) == dropna(log_div(mp, shift(mp)))


\* ------------------------------------------------------------------------
\* Formatting of floats: f"{x:.4f}".

\* |v| (units of 10^-5) rounded to units of 10^-4, ties to even: the
\* rounding of printf on a value that is exactly representable.
Round4(a) ==
    LET q == a \div 10
        r == a % 10
    IN IF r > 5 \/ (r = 5 /\ q % 2 = 1) THEN q + 1 ELSE q

Pad4(n) ==
    IF n < 10 THEN "000" \o ToString(n)
    ELSE IF n < 100 THEN "00" \o ToString(n)
    ELSE IF n < 1000 THEN "0" \o ToString(n)
    ELSE ToString(n)

Fmt4(x) ==
    CASE x.kind = "nan" -> "nan"
      [] x.kind = "inf" -> IF x.v < 0 THEN "-inf" ELSE "inf"
      [] OTHER ->
           LET a == IF x.v < 0 THEN -x.v ELSE x.v
               r == Round4(a)
           IN (IF x.v < 0 THEN "-" ELSE "") \o ToString(r \div 10000)
              \o "." \o Pad4(r % 10000)

\* x < c for a float x and a finite constant c: false for nan.
Lt(x, c) == x.kind = "fin" /\ x.v < c

\* np.sqrt of a float in units of 10^-10, in units of 10^-5.
RECURSIVE ISqrt(_, _, _)
ISqrt(n, lo, hi) ==
    IF lo >= hi THEN lo
    ELSE LET mid == (lo + hi + 1) \div 2
         IN IF mid * mid <= n THEN ISqrt(n, mid, hi) ELSE ISqrt(n, lo, mid - 1)

sqrt(x) == IF x.kind = "fin" THEN Fin(ISqrt(x.v, 0, 46340)) ELSE x

\* ------------------------------------------------------------------------
\* The regression engine (statsmodels), an external collaborator.

Series(index, values) == [index |-> index, values |-> values]

\* name in series.index
contains(series, name) == name \in Range(series.index)

\* series.get(name, default)
get(series, name, default) ==
    IF contains(series, name) THEN series.values[IndexOf(series.index, name)]
    ELSE default

\* returns[name]: the values of one column, in row order.
column(df, name) ==
    [i \in DOMAIN df.rows |-> df.rows[i].vals[IndexOf(df.columns, name)]]

\* Two log returns are the same float; a log return is not 0.0.
SameReturn(a, b) == a.v[1] * b.v[2] = b.v[1] * a.v[2]
NonZero(a) == a.v[1] # a.v[2]

\* add_trend's safe_is_const: np.ptp(s) == 0.0 and np.any(s != 0.0).
safe_is_const(s) ==
    /\ Len(s) > 0
    /\ \A i, k \in DOMAIN s : SameReturn(s[i], s[k])
    /\ \E i \in DOMAIN s : NonZero(s[i])

\* sm.add_constant(returns[names]): the names of the columns of the design
\* matrix.  With has_constant="skip", the default, no column of ones is
\* added when a column of the data is already a non-zero constant.
add_constant(df, names) ==
    IF \E j \in DOMAIN names : safe_is_const(column(df, names[j]))
    THEN names
    ELSE <<"const">> \o names

\* The numbers a fit computes are not derived here: a fit takes them from
\* this table.  coef, se and p are in units of 10^-5, mse in units of
\* 10^-10, r2 and the F statistic f in units of 10^-5.
FitSamples == <<
    [coef |-> 123456,  se |-> 4321,  p |-> 200,   mse |-> 66585600, r2 |-> 45678,
     f |-> 1681749],
    [coef |-> -1,      se |-> 50000, p |-> 99998, mse |-> 100000000, r2 |-> 12,
     f |-> 24],
    [coef |-> 3125,    se |-> 1004,  p |-> 1000,  mse |-> 1004004,  r2 |-> 99996,
     f |-> 2000000005],
    [coef |-> 80000,   se |-> 30004, p |-> 5000,  mse |-> 25000000, r2 |-> 50001,
     f |-> 200008],
    [coef |-> -150002, se |-> 99996, p |-> 10000, mse |-> 400000000, r2 |-> 0,
     f |-> 0],
    [coef |-> 0,       se |-> 9,     p |-> 9999,  mse |-> 81,       r2 |-> 100000,
     f |-> 1500000000] >>

FitDraws == 0..(Len(FitSamples) - 1)

Sample(k, i, j) == FitSamples[((k + i + j) % Len(FitSamples)) + 1]

\* A division by the residual degrees of freedom 0 gives nan or inf.
NonFinite(k) == IF k % 2 = 0 THEN NaN ELSE Inf

\* R^2 = 1 - ssr / centered_tss.  The total sum of squares is 0.0 when the
\* values of y are all the same float (always on one row): R^2 is then nan
\* or -inf, as the residuals are 0.0 or not.  Otherwise a fit that uses up
\* the observations has residuals of rounding size and R^2 = 1.0.
rsquared_of(df, y, exog, k, i) ==
    LET ys == column(df, y)
    IN IF \A a, b \in DOMAIN ys : SameReturn(ys[a], ys[b])
       THEN IF k % 2 = 0 THEN NaN ELSE NegInf
       ELSE IF Len(df.rows) <= Len(exog) THEN Fin(100000)
       ELSE Fin(Sample(k, i, 0).r2)

\* rsquared_adj = 1 - (nobs - 1) / df_resid * (1 - rsquared): nan on a
\* division by 0.0 or a product 0.0 * inf, 1.0 when 1 - rsquared = 0.0.
rsquared_adj_of(r2, nobs, nexog) ==
    IF r2.kind # "fin" \/ nobs = nexog THEN NaN
    ELSE IF nobs < nexog THEN Fin(100000)
    ELSE LET a == (nobs - 1) * (100000 - r2.v)
             b == nobs - nexog
         IN Fin(100000 - ((2 * a + b) \div (2 * b)))

\* sm.OLS(y, X).fit() for model i: column y of df on the columns exog, with
\* draw k of the numbers.  Every row of the data is used (missing="none").
\* fvalue = mse_model / mse_resid is 0.0 or nan where mse_resid is inf or
\* nan.
OLS(df, y, exog, k, i) ==
    LET nobs == Len(df.rows)
        df_resid_zero == nobs <= Len(exog)
        r2 == rsquared_of(df, y, exog, k, i)
    IN [endog |-> y,
        row_labels |-> [r \in DOMAIN df.rows |-> df.rows[r].date],
        nobs |-> nobs,
        params |-> Series(exog, [j \in DOMAIN exog |-> Fin(Sample(k, i, j).coef)]),
        bse |-> Series(exog, [j \in DOMAIN exog |->
                    IF df_resid_zero THEN NonFinite(k)
                    ELSE Fin(Sample(k, i, j).se)]),
        pvalues |-> Series(exog, [j \in DOMAIN exog |->
                    IF df_resid_zero THEN NaN ELSE Fin(Sample(k, i, j).p)]),
        mse_resid |-> IF df_resid_zero THEN NonFinite(k)
                      ELSE Fin(Sample(k, i, 0).mse),
        rsquared |-> r2,
        rsquared_adj |-> rsquared_adj_of(r2, nobs, Len(exog)),
        fvalue |-> IF df_resid_zero THEN (IF k % 2 = 0 THEN NaN ELSE Fin(0))
                   ELSE Fin(Sample(k, i, 0).f)]

\* ------------------------------------------------------------------------
\* run_regressions
run_regressions_swapped(df, k) ==
    << OLS(df, stock_ticker, add_constant(df, <<"SP500">>), k, 1),
       OLS(df, stock_ticker, add_constant(df, <<"TYX">>), k, 2),
       OLS(df, stock_ticker, add_constant(df, <<"VW">>), k, 3),
       OLS(df, stock_ticker, add_constant(df, <<"SP500", "VW">>), k, 4),
       OLS(df, stock_ticker, add_constant(df, <<"SP500", "VW", "TYX">>), k, 5) >>

run_regressions_tail(df, k) ==
    LET tail == [df EXCEPT !.rows = Tail(df.rows)]
    IN << OLS(df, stock_ticker, add_constant(df, <<"SP500">>), k, 1),
          OLS(df, stock_ticker, add_constant(df, <<"VW">>), k, 2),
          OLS(df, stock_ticker, add_constant(df, <<"TYX">>), k, 3),
          OLS(df, stock_ticker, add_constant(df, <<"SP500", "VW">>), k, 4),
          OLS(tail, stock_ticker, add_constant(tail, <<"SP500", "VW", "TYX">>), k, 5) >>

run_regressions(df, k) ==
    LET y == stock_ticker
        X1 == add_constant(df, <<"SP500">>)
        reg1 == OLS(df, y, X1, k, 1)
        X2 == add_constant(df, <<"VW">>)
        reg2 == OLS(df, y, X2, k, 2)
        X3 == add_constant(df, <<"TYX">>)
        reg3 == OLS(df, y, X3, k, 3)
        X4 == add_constant(df, <<"SP500", "VW">>)
        reg4 == OLS(df, y, X4, k, 4)
        X5 == add_constant(df, <<"SP500", "VW", "TYX">>)
        reg5 == OLS(df, y, X5, k, 5)
    IN <<reg1, reg2, reg3, reg4, reg5>>

\* ------------------------------------------------------------------------
\* create_regression_table_dataframe

\* The thresholds of the significance stars, in units of 10^-5.
P001 == 1000
P005 == 5000
P010 == 10000

significance_inclusive(pval) ==
    IF pval.kind = "fin" /\ pval.v <= P001 THEN "***"
    ELSE IF pval.kind = "fin" /\ pval.v <= P005 THEN "**"
    ELSE IF pval.kind = "fin" /\ pval.v <= P010 THEN "*"
    ELSE ""

\* line 90
significance(pval) ==
    IF Lt(pval, P001) THEN "***"
    ELSE IF Lt(pval, P005) THEN "**"
    ELSE IF Lt(pval, P010) THEN "*"
    ELSE ""

\* line 91, with the last digit cut off instead of rounded.
TruncFmt4(x) ==
    IF x.kind # "fin" THEN Fmt4(x)
    ELSE Fmt4(Fin(IF x.v < 0 THEN -(((-x.v) \div 10) * 10) ELSE (x.v \div 10) * 10))

create_cell_value_truncating(reg, var_name) ==
    IF contains(reg.params, var_name)
    THEN LET val == get(reg.params, var_name, NaN)
             se == get(reg.bse, var_name, Fin(0))
             pval == get(reg.pvalues, var_name, Fin(100000))
         IN TruncFmt4(val) \o significance(pval) \o " (" \o TruncFmt4(se) \o ")"
    ELSE ""

create_cell_value(reg, var_name) ==
    IF contains(reg.params, var_name)
    THEN LET val == get(reg.params, var_name, NaN)
             se == get(reg.bse, var_name, Fin(0))
             pval == get(reg.pvalues, var_name, Fin(100000))
             sig == significance(pval)
         IN Fmt4(val) \o sig \o " (" \o Fmt4(se) \o ")"
    ELSE ""

\* "(i)"
Label(i) == "(" \o ToString(i) \o ")"

\* The combined cell of the residual standard error and R^2.
fit_cell(reg) ==
    LET resid_se == sqrt(reg.mse_resid)
        r_squared == reg.rsquared
    IN Fmt4(resid_se) \o ", " \o Fmt4(r_squared)

\* The keys of a row, in insertion order ("S,R2" stands for the label with
\* a superscript 2).
row_keys == <<"Regression", "Int.", "S&P 500", "Val.-Wgtd", "30 Yr Treas.", "S,R2">>

table_row(reg, i) ==
    << Label(i),
       create_cell_value(reg, "const"),
       create_cell_value(reg, "SP500"),
       create_cell_value(reg, "VW"),
       create_cell_value(reg, "TYX"),
       fit_cell(reg) >>

\* pd.DataFrame(table_data): the columns are the keys of the rows.
create_regression_table_dataframe(regs) ==
    [columns |-> IF regs = <<>> THEN <<>> ELSE row_keys,
     rows |-> [i \in DOMAIN regs |-> table_row(regs[i], i)]]

\* ------------------------------------------------------------------------
\* generate_pdf_report: the regression table.

\* line 307
pdf_significance(pval) ==
    IF Lt(pval, P001) THEN "***"
    ELSE IF Lt(pval, P005) THEN "**"
    ELSE IF Lt(pval, P010) THEN "*"
    ELSE ""

pdf_create_cell_value_stacked(reg, var_name) ==
    IF contains(reg.params, var_name)
    THEN Fmt4(get(reg.params, var_name, NaN))
         \o pdf_significance(get(reg.pvalues, var_name, Fin(100000)))
         \o "\n(" \o Fmt4(get(reg.bse, var_name, Fin(0))) \o ")"
    ELSE ""

pdf_create_cell_value(reg, var_name) ==
    IF contains(reg.params, var_name)
    THEN LET val == get(reg.params, var_name, NaN)
             se == get(reg.bse, var_name, Fin(0))
             pval == get(reg.pvalues, var_name, Fin(100000))
             sig == pdf_significance(pval)
         IN Fmt4(val) \o sig \o " (" \o Fmt4(se) \o ")"
    ELSE ""

pdf_header == <<"Regression", "Int.", "S&P 500", "Val.-Wgtd", "30 Yr Treas.", "S,R2">>

pdf_row(reg, i) ==
    << Label(i),
       pdf_create_cell_value(reg, "const"),
       pdf_create_cell_value(reg, "SP500"),
       pdf_create_cell_value(reg, "VW"),
       pdf_create_cell_value(reg, "TYX"),
       Fmt4(sqrt(reg.mse_resid)) \o ", " \o Fmt4(reg.rsquared) >>

pdf_table_data(regs) ==
    <<pdf_header>> \o [i \in DOMAIN regs |-> pdf_row(regs[i], i)]

\* ------------------------------------------------------------------------
\* app.py 500-511: the regression summary.  A line of the CSV is kept as
\* its fields, which to_csv joins with commas (no field holds a comma or a
\* quote).

summary_columns ==
    <<"Model", "R-squared", "Adj R-squared", "F-statistic", "Observations">>

\* str(x) of a float with no fraction, as to_csv writes reg.nobs: "3.0".
float_text(n) == ToString(n) \o ".0"

summary_row(reg, i) ==
    << Label(i),
       Fmt4(reg.rsquared),
       Fmt4(reg.rsquared_adj),
       Fmt4(reg.fvalue),
       float_text(reg.nobs) >>

\* csv_reg = pd.DataFrame(reg_summary).to_csv(index=False): the header and
\* a line for every result; a frame of no row has no column, and its CSV
\* is one empty line.
csv_reg(regs) ==
    IF regs = <<>> THEN << <<>> >>
    ELSE <<summary_columns>> \o [i \in DOMAIN regs |-> summary_row(regs[i], i)]

\* ------------------------------------------------------------------------
\* The returns as the distribution functions read them.  A return is a
\* double of absolute value below 1, given to five decimals: an integer
\* in units of 10^-5.

Abs(x) == IF x < 0 THEN -x ELSE x

\* np.log(a / b) for two prices, in units of 10^-5 and to within one unit:
\* 2 atanh(z) = 2z + 2z^3/3 for z = (a - b) / (a + b), summed in units of
\* 10^-7.
LogValue(a, b) ==
    LET d == Abs(a - b)
        s == a + b
        t1 == (20000000 * d) \div s
        t3 == (((t1 \div 2) * d * d) \div (3 * s * s)) * 2
        v == (t1 + t3 + 50) \div 100
    IN IF a < b THEN -v ELSE v

\* The values of a column of log returns.
Values(s) == [i \in DOMAIN s |-> LogValue(s[i].v[1], s[i].v[2])]

\* series.dropna()
series_dropna(s) == SelectRows(LAMBDA x : ~isna(x), s)

RECURSIVE Sum(_)
Sum(s) == IF s = <<>> THEN 0 ELSE Head(s) + Sum(Tail(s))

\* The quotient a / b to the nearest integer.
RoundDiv(a, b) == (2 * a + b) \div (2 * b)

\* ------------------------------------------------------------------------
\* Double arithmetic on the mean of equal values.  The significand of a
\* double, and a sum of up to seven of them, is the natural number
\* hi * 2^26 + lo written <<hi, lo>>, in units of the last place of the
\* value.

Limb == 2^26

Carry(a) == <<a[1] + (a[2] \div Limb), a[2] % Limb>>

\* The 53-bit significand of the double nearest to x * 10^-5, 0 < x < 10^5:
\* the binary digits of x / 10^5 from the first 1 on, rounded to nearest on
\* the rest.  r is the remainder so far, k the number of digits to take.
RECURSIVE Digits(_, _, _)
Digits(r, sig, k) ==
    IF k = 0
    THEN IF 2 * r > 100000 \/ (2 * r = 100000 /\ sig[2] % 2 = 1)
         THEN Carry(<<sig[1], sig[2] + 1>>)
         ELSE sig
    ELSE LET bit == (2 * r) \div 100000
             rest == (2 * r) % 100000
         IN IF sig = <<0, 0>> /\ bit = 0 THEN Digits(rest, sig, k)
            ELSE Digits(rest, Carry(<<2 * sig[1], 2 * sig[2] + bit>>), k - 1)

Significand(x) == Digits(x, <<0, 0>>, 53)

\* A sum rounded to 53 significant bits, to nearest and ties to even.
Round53(a) ==
    LET m == IF a[1] < 2^27 THEN 1
             ELSE IF a[1] < 2^28 THEN 2
             ELSE IF a[1] < 2^29 THEN 4
             ELSE 8
        r == a[2] % m
        q == a[2] \div m
        up == 2 * r > m \/ (2 * r = m /\ q % 2 = 1)
    IN Carry(<<a[1], a[2] - r + (IF up THEN m ELSE 0)>>)

\* np.add.reduce on n < 8 copies of a double: the copies added one by one.
RECURSIVE fl_sum(_, _)
fl_sum(sig, n) ==
    IF n = 1 THEN sig
    ELSE LET s == fl_sum(sig, n - 1)
         IN Round53(Carry(<<s[1] + sig[1], s[2] + sig[2]>>))

\* The double s / n, in halves of the unit: the quotient rounded to the
\* unit when it has 53 bits and to half the unit when it has 52.
fl_div(s, n) ==
    LET Quot(a) == <<a[1] \div n, ((a[1] % n) * Limb + a[2]) \div n>>
        Rem(a) == ((a[1] % n) * Limb + a[2]) % n
        Up(a) == 2 * Rem(a) > n \/ (2 * Rem(a) = n /\ Quot(a)[2] % 2 = 1)
        Rounded(a) == Carry(<<Quot(a)[1], Quot(a)[2] + (IF Up(a) THEN 1 ELSE 0)>>)
        twice == Carry(<<2 * s[1], 2 * s[2]>>)
    IN IF Quot(s)[1] >= Limb
       THEN LET q == Rounded(s) IN Carry(<<2 * q[1], 2 * q[2]>>)
       ELSE Rounded(twice)

\* data.mean() - x for the n < 8 copies of the double x, in halves of the
\* unit in the last place of x.
mean_error(x, n) ==
    IF x = 0 THEN 0
    ELSE LET sig == Significand(Abs(x))
             mean == fl_div(fl_sum(sig, n), n)
             e == (mean[1] - 2 * sig[1]) * Limb + (mean[2] - 2 * sig[2])
         IN IF x < 0 THEN -e ELSE e

\* ------------------------------------------------------------------------
\* The distribution fit.

\* The fit with the squares averaged over n - 1 values.
norm_fit_unbiased(data) ==
    LET n == Len(data)
        S == Sum(data)
        ss == Sum([i \in DOMAIN data |-> (n * data[i] - S) * (n * data[i] - S)])
    IN IF n = 0
       THEN [mu |-> [kind |-> "nan"], sigma |-> [kind |-> "nan"]]
       ELSE [mu |-> [kind |-> "fin", num |-> S, den |-> n, err |-> 0],
             sigma |-> [kind |-> "fin", num |-> ss,
                        den |-> n * n * (IF n > 1 THEN n - 1 ELSE 1), err |-> 0]]

\* mu, sigma = norm.fit(data): mu = data.mean() and
\* sigma = np.sqrt(((data - mu) ** 2).mean()); both are nan on no data,
\* without an exception.  mu is num / den, and err halves of its unit in
\* the last place more than that where the doubles of the data are all the
\* same double (elsewhere the rounding is below the five decimals kept
\* here).  With S the sum of the n values a deviation from the mean is
\* (n x - S) / n, so sigma^2 is num / den for num the sum of the
\* (n x - S)^2 and den = n^3, and err^2 more than that.
norm_fit(data) ==
    LET n == Len(data)
        S == Sum(data)
        ss == Sum([i \in DOMAIN data |-> (n * data[i] - S) * (n * data[i] - S)])
        err == IF \A i \in DOMAIN data : data[i] = data[1]
               THEN mean_error(data[1], n) ELSE 0
    IN IF n = 0
       THEN [mu |-> [kind |-> "nan"], sigma |-> [kind |-> "nan"]]
       ELSE [mu |-> [kind |-> "fin", num |-> S, den |-> n, err |-> err],
             sigma |-> [kind |-> "fin", num |-> ss, den |-> n * n * n,
                        err |-> err]]

\* sigma == 0.0
IsZero(sigma) == sigma.kind = "fin" /\ sigma.num = 0 /\ sigma.err = 0

\* The fitted numbers as floats in units of 10^-5: mu, sigma and sigma ** 2.
FloatMu(mu) ==
    IF mu.kind = "nan" THEN NaN ELSE Fin(RoundDiv(mu.num, mu.den))
FloatSigma(sigma) ==
    IF sigma.kind = "nan" THEN NaN
    ELSE Fin(ISqrt(sigma.num \div sigma.den, 0, 46340))
FloatVariance(sigma) ==
    IF sigma.kind = "nan" THEN NaN
    ELSE Fin(RoundDiv(sigma.num, sigma.den * 100000))

\* ------------------------------------------------------------------------
\* pandas statistics of a series of returns, as floats in units of 10^-5.

series_mean(data) ==
    IF data = <<>> THEN NaN ELSE Fin(RoundDiv(Sum(data), Len(data)))

\* series.std(): ddof = 1, nan on fewer than two values.
series_std(data) ==
    LET n == Len(data)
        S == Sum(data)
        ss == Sum([i \in DOMAIN data |-> (n * data[i] - S) * (n * data[i] - S)])
    IN IF n < 2 THEN NaN ELSE Fin(ISqrt(ss \div (n * n * (n - 1)), 0, 46340))

series_min(data) ==
    IF data = <<>> THEN NaN
    ELSE Fin(CHOOSE x \in Range(data) : \A y \in Range(data) : x <= y)

series_max(data) ==
    IF data = <<>> THEN NaN
    ELSE Fin(CHOOSE x \in Range(data) : \A y \in Range(data) : y <= x)

\* ------------------------------------------------------------------------
\* The data of the CDF chart.

Remove(s, i) == SubSeq(s, 1, i - 1) \o SubSeq(s, i + 1, Len(s))

\* The values in descending order.
RECURSIVE np_sort_descending(_)
np_sort_descending(s) ==
    IF s = <<>> THEN <<>>
    ELSE LET i == CHOOSE i \in DOMAIN s : \A j \in DOMAIN s : s[j] <= s[i]
         IN <<s[i]>> \o np_sort_descending(Remove(s, i))

\* np.sort(s)
RECURSIVE np_sort(_)
np_sort(s) ==
    IF s = <<>> THEN <<>>
    ELSE LET i == CHOOSE i \in DOMAIN s : \A j \in DOMAIN s : s[i] <= s[j]
         IN <<s[i]>> \o np_sort(Remove(s, i))

\* np.linspace(0, 1, num, endpoint=False)
linspace_open(num) == [i \in 1..num |-> <<i - 1, num>>]

\* np.linspace(0, 1, num): the fractions <<numerator, denominator>>.  With
\* div = num - 1 > 0 the points are arange(num) * (1 / div) with the last
\* set to 1; with num = 1 the one point is 0.
linspace(num) ==
    [i \in 1..num |-> IF num = 1 THEN <<0, 1>> ELSE <<i - 1, num - 1>>]

\* One scatter of plot_cdf: the sorted values and their probabilities.
cdf_series(data) ==
    [sorted |-> np_sort(data), p |-> linspace(Len(np_sort(data)))]

\* ------------------------------------------------------------------------
\* The two charts.  A figure is what it draws.

stock_returns(ret) == Values(series_dropna(column(ret, stock_ticker)))
sp(ret) == Values(series_dropna(column(ret, "SP500")))

\* fig, ax = plt.subplots(...): pyplot gives the new figure the number
\* after the highest in use and keeps it in its registry of figures, where
\* it stays until plt.close is called on it.  A figure in the registry is
\* known here by its number and its title.
subplots(registry, title) ==
    LET nums == {registry[i].num : i \in DOMAIN registry}
        next_num == IF nums = {} THEN 1
                    ELSE (CHOOSE n \in nums : \A m \in nums : m <= n) + 1
    IN Append(registry, [num |-> next_num, title |-> title])

plot_normal_distribution(ret) ==
    LET fit == norm_fit(stock_returns(ret))
    IN [title |-> stock_ticker \o " Monthly Returns with Normal Distribution Fit",
        hist |-> stock_returns(ret),
        label |-> "Normal Fit (mu=" \o Fmt4(FloatMu(fit.mu)) \o ", sigma="
                  \o Fmt4(FloatSigma(fit.sigma)) \o ")"]

plot_cdf(ret) ==
    [title |-> "Distribution of Monthly Returns: " \o stock_ticker \o " vs S&P 500",
     stock |-> cdf_series(stock_returns(ret)),
     sp |-> cdf_series(sp(ret))]

\* ------------------------------------------------------------------------
\* generate_pdf_report: the flowables of the document, in the order they
\* are appended.  Long texts are cut to their first words, and an item of a
\* tutorial is named by its step and its place in the step.

stock_name == "MASCO"

Paragraph(text, style) == [type |-> "Paragraph", text |-> text, style |-> style]
\* Spacer(1, height * inch / 100)
Spacer(height) == [type |-> "Spacer", height |-> height]
PageBreak == [type |-> "PageBreak"]
Table(data) == [type |-> "Table", data |-> data]
\* An image is the PNG of the figure savefig wrote.
Image(fig) == [type |-> "Image", fig |-> fig]

RECURSIVE Concat(_)
Concat(seqs) == IF seqs = <<>> THEN <<>> ELSE Head(seqs) \o Concat(Tail(seqs))

\* date.strftime('%Y-%m-%d') of the first day of a month of the model.
date_text(m) == "month " \o ToString(m)

\* One tick of the clock is a fraction of a second: TicksPerSecond ticks
\* make a second.
TicksPerSecond == 2

\* datetime.now().strftime('%Y-%m-%d %H:%M:%S') at tick now: the time to
\* the second.
timestamp(now) == "second " \o ToString(now \div TicksPerSecond)

intro_text == <<
    "<b>What are we doing here?</b>",
    "<b>Why should you care?</b>",
    "<b>What can we learn from these results?</b>",
    "<b>Real-World Examples:</b>",
    "<b>The Bottom Line:</b>" >>

interpretation_text == <<
    "<b>The Numbers:</b>",
    "<b>Coefficients</b>",
    "<b>Standard Errors</b>",
    "<b>Stars (***, **, *):</b>",
    "",
    "<b>What Each Model Tells Us:</b>",
    "<b>Model (1):</b>",
    "<b>Model (2):</b>",
    "<b>Model (3):</b>",
    "<b>Model (4):</b>",
    "<b>Model (5):</b>",
    "",
    "<b>The S,R2 Column:</b>",
    "<b>S</b>",
    "<b>R2</b>" >>

excel_instructions == <<
    [title |-> "<b>Step 1: Prepare Your Data</b>", items |-> 3],
    [title |-> "<b>Step 2: Install Data Analysis ToolPak</b>", items |-> 4],
    [title |-> "<b>Step 3: Run Regression Analysis</b>", items |-> 6],
    [title |-> "<b>Step 4: Interpret the Results</b>", items |-> 5],
    [title |-> "<b>Step 5: Multiple Regressions</b>", items |-> 6],
    [title |-> "<b>Step 6: Significance Testing</b>", items |-> 4] >>

normal_dist_instructions == <<
    [title |-> "<b>Step 1: Calculate Statistics</b>", items |-> 3],
    [title |-> "<b>Step 2: Create Histogram</b>", items |-> 7],
    [title |-> "<b>Step 3: Add Normal Distribution Curve</b>", items |-> 9],
    [title |-> "<b>Step 4: Format the Chart</b>", items |-> 5] >>

cdf_instructions == <<
    [title |-> "<b>Step 1: Prepare Data</b>", items |-> 5],
    [title |-> "<b>Step 2: Create Scatter Plot</b>", items |-> 3],
    [title |-> "<b>Step 3: Add Second Series (for Comparison)</b>", items |-> 6],
    [title |-> "<b>Step 4: Format the Chart</b>", items |-> 11],
    [title |-> "<b>Step 5: Adjust Transparency</b>", items |-> 4],
    [title |-> "<b>Step 6: Add Gridlines (Optional)</b>", items |-> 3] >>

\* for title, items in instructions: the title, a spacer, a bullet for
\* every item, a spacer.
instruction_elements(instructions) ==
    Concat([s \in DOMAIN instructions |->
        <<Paragraph(instructions[s].title, "InstructionStyle"), Spacer(10)>>
        \o [j \in 1..instructions[s].items |->
               Paragraph("* " \o instructions[s].title \o " item " \o ToString(j),
                         "BulletStyle")]
        \o <<Spacer(15)>>])

\* Lines 240-286: the title, the analysis period and the narrative.
title_elements(start, end) ==
    <<Paragraph(stock_name \o " (" \o stock_ticker \o ") Stock Returns Analysis",
                "CustomTitle"),
      Paragraph("Analysis Period: " \o start \o " to " \o end, "CustomSubtitle"),
      Spacer(20)>>

narrative_elements ==
    <<Paragraph("Why This Analysis Matters", "IntroTitle")>>
    \o Concat([i \in DOMAIN intro_text |->
                  <<Paragraph(intro_text[i], "IntroStyle"), Spacer(15)>>])
    \o <<Spacer(20)>>

legend == "* p<0.1; ** p<0.05; *** p<0.01"

\* Lines 289-464: the regression table, its legend, and the two guides.
regression_elements(regs) ==
    <<Paragraph(stock_name \o " (" \o stock_ticker \o ") Monthly Return Regressions",
                "Heading2"),
      Spacer(20),
      Table(pdf_table_data(regs)),
      Spacer(20),
      Paragraph(legend, "Normal"),
      Spacer(30),
      Paragraph("How to Read This Table", "IntroTitle")>>
    \o Concat([i \in DOMAIN interpretation_text |->
                  IF interpretation_text[i] = "" THEN <<Spacer(10)>>
                  ELSE <<Paragraph(interpretation_text[i], "IntroStyle"),
                         Spacer(8)>>])
    \o <<Spacer(30),
         Paragraph("How to Perform This Analysis in Excel", "Heading2"),
         Spacer(15)>>
    \o instruction_elements(excel_instructions)

\* Lines 470-533: the chart of the fit, the fitted parameters, the guide.
normal_elements(ret, fig_n) ==
    LET fit == norm_fit(stock_returns(ret))
    IN <<Paragraph("Normal Distribution Fit", "Heading2"),
         Spacer(20),
         Image(fig_n),
         Spacer(20),
         Paragraph("Mean (mu): " \o Fmt4(FloatMu(fit.mu)), "Normal"),
         Paragraph("Standard Deviation (sigma): " \o Fmt4(FloatSigma(fit.sigma)),
                   "Normal"),
         Paragraph("Variance (sigma2): " \o Fmt4(FloatVariance(fit.sigma)),
                   "Normal"),
         Spacer(30),
         Paragraph("How to Create Normal Distribution Graph in Excel", "Heading2"),
         Spacer(15)>>
       \o instruction_elements(normal_dist_instructions)

statistics(data) ==
    "Mean: " \o Fmt4(series_mean(data)) \o ", Std Dev: " \o Fmt4(series_std(data))
    \o ", Min: " \o Fmt4(series_min(data)) \o ", Max: " \o Fmt4(series_max(data))

\* Lines 539-617: the CDF chart, the comparison statistics, the guide.
cdf_elements(ret, fig_c) ==
    <<Paragraph("Cumulative Distribution Function (CDF)", "Heading2"),
      Spacer(20),
      Image(fig_c),
      Spacer(20),
      Paragraph("<b>" \o stock_ticker \o " Statistics:</b><br/>"
                \o statistics(stock_returns(ret))
                \o "<br/><br/><b>S&P 500 Statistics:</b><br/>"
                \o statistics(sp(ret)), "Normal"),
      Spacer(30),
      Paragraph("How to Create CDF Graph in Excel", "Heading2"),
      Spacer(15)>>
    \o instruction_elements(cdf_instructions)

\* Lines 620-623
footer_elements(now) ==
    <<Spacer(50),
      Paragraph("Generated: " \o timestamp(now) \o " | Data Source: Yahoo Finance",
                "Footer")>>

\* The document without its page breaks.
generate_pdf_report_unbroken(ret, regs, fig_n, fig_c, start, end, now) ==
    title_elements(start, end)
    \o narrative_elements
    \o regression_elements(regs)
    \o normal_elements(ret, fig_n)
    \o cdf_elements(ret, fig_c)
    \o footer_elements(now)

\* The document with the time of generation left out of the footer.
generate_pdf_report_untimed(ret, regs, fig_n, fig_c, start, end, now) ==
    title_elements(start, end)
    \o narrative_elements
    \o regression_elements(regs)
    \o <<PageBreak>>
    \o normal_elements(ret, fig_n)
    \o <<PageBreak>>
    \o cdf_elements(ret, fig_c)
    \o footer_elements(0)

\* generate_pdf_report(...): the elements doc.build(elements) lays out.  No
\* argument is checked before the elements are built.
generate_pdf_report(ret, regs, fig_n, fig_c, start, end, now) ==
    title_elements(start, end)
    \o narrative_elements
    \o regression_elements(regs)
    \o <<PageBreak>>
    \o normal_elements(ret, fig_n)
    \o <<PageBreak>>
    \o cdf_elements(ret, fig_c)
    \o footer_elements(now)

\* ------------------------------------------------------------------------
\* One page load of app.py.

EmptyFrame == [columns |-> <<>>, rows |-> <<>>]
NoCall == [reg |-> <<>>, var_name |-> "", done |-> FALSE, ret |-> "", pdf_ret |-> ""]

\* At most MaxGaps trading days of the history of a page load, and at most
\* LoadGaps of the history load_data is checked on alone, are not fully
\* quoted.
MaxGaps == 0
LoadGaps == 3

\* The sets of at most n of the trading days.
RECURSIVE GapSets(_, _)
GapSets(days, n) ==
    IF n = 0 THEN {{}}
    ELSE LET S == GapSets(days, n - 1)
         IN S \cup {G \cup {x} : G \in S, x \in days}

\* The histories of the trading days with at most n days not fully quoted.
Calendars(days, n) ==
    UNION {{[x \in days |-> IF x \in G THEN k[x] ELSE "full"] :
                k \in [G -> DayKinds \ {"full"}]} : G \in GapSets(days, n)}

\* At most MaxClock ticks pass on the clock.
MaxClock == 3
Clock == 0..MaxClock

NoFit == [done |-> FALSE, ret |-> <<>>]

\* Nothing is on the page, drawn or assembled.
NothingShown ==
    /\ outputs = <<>>
    /\ error = ""
    /\ fig_normal = <<>>
    /\ fig_cdf = <<>>
    /\ elements = <<>>
    /\ reports = <<>>

\* A process that has made no figure, on its first page load.
FreshProcess ==
    /\ figs = <<>>
    /\ runs = 1

\* No call of the distribution fit alone.
NothingFitted ==
    /\ sample = <<>>
    /\ fit_call = NoFit
    /\ cdf_call = NoFit

Init ==
    /\ pc = "start"
    /\ start_date \in Months
    /\ end_date \in start_date..NMonths
    /\ calendar \in Calendars(Months \X Days, MaxGaps)
    /\ raw = EmptyFrame
    /\ monthly_prices = EmptyFrame
    /\ returns = EmptyFrame
    /\ regressions = <<>>
    /\ regression_df = EmptyFrame
    /\ table_data = <<>>
    /\ cell_call = NoCall
    /\ NothingShown
    /\ FreshProcess
    /\ NothingFitted

\* app.py 189-194: returns = masco.load_data(...)
LoadData ==
    /\ pc = "start"
    /\ raw' = load_raw(calendar, start_date, end_date)
    /\ monthly_prices' = load_monthly_prices(raw')
    /\ returns' = load_returns(monthly_prices')
    /\ pc' = "loaded"
    /\ UNCHANGED <<start_date, end_date, calendar, table_vars, cell_call,
                   page_vars, chart_vars, report_vars, fit_vars, process_vars>>

\* st.metric, st.dataframe, st.pyplot, st.write, st.download_button
Output(kind, label, value) == [kind |-> kind, label |-> label, value |-> value]

\* date.strftime('%Y-%m')
month_text(m) == "month " \o ToString(m)

\* app.py 197-203: the data metrics, put on the page one by one;
\* returns.index[0] raises IndexError on a ReturnSeries with no row, which
\* ends the run.
DataInfo ==
    /\ pc = "loaded"
    /\ LET shape == <<Output("metric", "Number of Observations",
                             ToString(Len(returns.rows))),
                      Output("metric", "Number of Variables",
                             ToString(Len(returns.columns)))>>
       IN IF returns.rows = <<>>
          THEN /\ outputs' = outputs \o shape
               /\ error' = "IndexError"
               /\ pc' = "crashed"
          ELSE /\ outputs' = outputs \o shape \o
                      <<Output("metric", "Date Range",
                               month_text(returns.rows[1].date) \o " to " \o
                               month_text(returns.rows[Len(returns.rows)].date))>>
               /\ error' = error
               /\ pc' = "metrics"
    /\ UNCHANGED <<load_vars, table_vars, cell_call, chart_vars, report_vars,
                   fit_vars, process_vars>>

\* app.py 209
RunRegressions ==
    /\ pc = "metrics"
    /\ \E k \in FitDraws : regressions' = run_regressions(returns, k)
    /\ pc' = "regressed"
    /\ UNCHANGED <<load_vars, regression_df, table_data, cell_call, page_vars,
                   chart_vars, report_vars, fit_vars, process_vars>>

\* app.py 210-265: the regression table is built and shown, and under it
\* the summary statistics, returns.describe().
CreateTable ==
    /\ pc = "regressed"
    /\ regression_df' = create_regression_table_dataframe(regressions)
    /\ outputs' = outputs \o
           <<Output("dataframe", "Monthly Return Regressions", regression_df'),
             Output("dataframe", "View Summary Statistics",
                    [count |-> Len(returns.rows)])>>
    /\ pc' = "tabled"
    /\ UNCHANGED <<load_vars, regressions, table_data, cell_call, error,
                   chart_vars, report_vars, fit_vars, process_vars>>

\* app.py 320-333: the chart of the fit and the fitted parameters.
PlotNormalDistribution ==
    /\ pc = "tabled"
    /\ fig_normal' = plot_normal_distribution(returns)
    /\ LET fitted == norm_fit(stock_returns(returns))
       IN outputs' = outputs \o
           <<Output("pyplot", "Normal Distribution Fit", fig_normal'),
             Output("metric", "Mean (mu)", Fmt4(FloatMu(fitted.mu))),
             Output("metric", "Standard Deviation (sigma)",
                    Fmt4(FloatSigma(fitted.sigma))),
             Output("metric", "Variance (sigma2)",
                    Fmt4(FloatVariance(fitted.sigma)))>>
    /\ figs' = subplots(figs, fig_normal'.title)
    /\ pc' = "normal"
    /\ UNCHANGED <<load_vars, table_vars, cell_call, error, fig_cdf,
                   report_vars, fit_vars, runs>>

\* app.py 385-398: the four statistics of a series, one st.write each.
written_statistics(label, data) ==
    <<Output("write", label, "Mean: " \o Fmt4(series_mean(data))),
      Output("write", label, "Std Dev: " \o Fmt4(series_std(data))),
      Output("write", label, "Min: " \o Fmt4(series_min(data))),
      Output("write", label, "Max: " \o Fmt4(series_max(data)))>>

\* The CDF section with the rows of the returns sorted in place, latest
\* first, by the chart.
PlotCdfInPlace ==
    /\ pc = "normal"
    /\ returns' = [returns EXCEPT !.rows =
                      [i \in DOMAIN returns.rows |->
                          returns.rows[Len(returns.rows) + 1 - i]]]
    /\ fig_cdf' = plot_cdf(returns)
    /\ figs' = subplots(figs, fig_cdf'.title)
    /\ outputs' = outputs \o
           <<Output("pyplot", "Cumulative Distribution Function (CDF)", fig_cdf')>>
           \o written_statistics(stock_ticker, stock_returns(returns))
           \o written_statistics("S&P 500", sp(returns))
    /\ pc' = "cdf"
    /\ UNCHANGED <<start_date, end_date, calendar, raw, monthly_prices,
                   table_vars, cell_call, error, fig_normal, report_vars,
                   fit_vars, runs>>

\* app.py 374-398: the CDF chart and the comparison statistics.  Neither
\* plot_cdf nor st.pyplot closes the figure.
PlotCdf ==
    /\ pc = "normal"
    /\ fig_cdf' = plot_cdf(returns)
    /\ figs' = subplots(figs, fig_cdf'.title)
    /\ outputs' = outputs \o
           <<Output("pyplot", "Cumulative Distribution Function (CDF)", fig_cdf')>>
           \o written_statistics(stock_ticker, stock_returns(returns))
           \o written_statistics("S&P 500", sp(returns))
    /\ pc' = "cdf"
    /\ UNCHANGED <<load_vars, table_vars, cell_call, error, fig_normal,
                   report_vars, fit_vars, runs>>

\* The report assembled from regressions that are fitted again for it.
GeneratePdfReportRefitted ==
    /\ pc = "cdf"
    /\ table_data' = pdf_table_data(regressions)
    /\ \E now \in Clock, k \in FitDraws :
          elements' = generate_pdf_report(returns, run_regressions(returns, k),
                          fig_normal, fig_cdf, date_text(start_date),
                          date_text(end_date), now)
    /\ outputs' = outputs \o
           <<Output("download_button", "Download Full Report as PDF", elements'),
             Output("download_button", "Returns Data (CSV)", returns),
             Output("download_button", "Regression Summary (CSV)",
                    csv_reg(regressions))>>
    /\ pc' = "report"
    /\ UNCHANGED <<load_vars, regressions, regression_df, cell_call, error,
                   chart_vars, reports, fit_vars, process_vars>>

\* app.py 458-519: the PDF report is assembled, then the three download
\* buttons are shown.
GeneratePdfReport ==
    /\ pc = "cdf"
    /\ table_data' = pdf_table_data(regressions)
    /\ \E now \in Clock :
          elements' = generate_pdf_report(returns, regressions, fig_normal,
                          fig_cdf, date_text(start_date), date_text(end_date),
                          now)
    /\ outputs' = outputs \o
           <<Output("download_button", "Download Full Report as PDF", elements'),
             Output("download_button", "Returns Data (CSV)", returns),
             Output("download_button", "Regression Summary (CSV)",
                    csv_reg(regressions))>>
    /\ pc' = "report"
    /\ UNCHANGED <<load_vars, regressions, regression_df, cell_call, error,
                   chart_vars, reports, fit_vars, process_vars>>

\* app.py 319-398: an exception raised in one of the two chart sections, by
\* the fit, by matplotlib or by st.pyplot, is caught nowhere and ends the
\* run where it is raised.
ChartRaises ==
    /\ pc \in {"tabled", "normal"}
    /\ error' = "Exception"
    /\ pc' = "crashed"
    /\ UNCHANGED <<load_vars, table_vars, cell_call, outputs, chart_vars,
                   report_vars, fit_vars, process_vars>>

Next ==
    \/ LoadData
    \/ DataInfo
    \/ RunRegressions
    \/ CreateTable
    \/ PlotNormalDistribution
    \/ PlotCdf
    \/ ChartRaises
    \/ GeneratePdfReport

Spec == Init /\ [][Next]_vars

\* ------------------------------------------------------------------------
\* Successive page loads of one process: at most MaxRuns runs of the
\* script, on date ranges within the first ProcessMonths fully quoted
\* months.

ProcessMonths == 2
MaxRuns == 3

InitProcess ==
    /\ pc = "start"
    /\ start_date \in 1..ProcessMonths
    /\ end_date \in start_date..ProcessMonths
    /\ calendar = [x \in Months \X Days |-> "full"]
    /\ raw = EmptyFrame
    /\ monthly_prices = EmptyFrame
    /\ returns = EmptyFrame
    /\ regressions = <<>>
    /\ regression_df = EmptyFrame
    /\ table_data = <<>>
    /\ cell_call = NoCall
    /\ NothingShown
    /\ FreshProcess
    /\ NothingFitted

\* The script is run again from its first line when the page is loaded
\* again or a widget changes: the names of the script are bound anew, the
\* page is drawn anew, and what the process holds outside the script
\* stays.
Rerun ==
    /\ pc \in {"report", "crashed"}
    /\ runs < MaxRuns
    /\ runs' = runs + 1
    /\ pc' = "start"
    /\ start_date' \in 1..ProcessMonths
    /\ end_date' \in start_date'..ProcessMonths
    /\ raw' = EmptyFrame
    /\ monthly_prices' = EmptyFrame
    /\ returns' = EmptyFrame
    /\ regressions' = <<>>
    /\ regression_df' = EmptyFrame
    /\ table_data' = <<>>
    /\ outputs' = <<>>
    /\ error' = ""
    /\ fig_normal' = <<>>
    /\ fig_cdf' = <<>>
    /\ elements' = <<>>
    /\ UNCHANGED <<calendar, cell_call, reports, fit_vars, figs>>

NextProcess ==
    \/ LoadData
    \/ DataInfo
    \/ RunRegressions
    \/ CreateTable
    \/ PlotNormalDistribution
    \/ PlotCdf
    \/ ChartRaises
    \/ GeneratePdfReport
    \/ Rerun

SpecProcess == InitProcess /\ [][NextProcess]_vars

\* ------------------------------------------------------------------------
\* load_data alone, on the histories of quotes over LoadMonths months.

InitLoad ==
    /\ pc = "start"
    /\ start_date = 1
    /\ end_date = LoadMonths
    /\ calendar \in Calendars((1..LoadMonths) \X Days, LoadGaps)
    /\ raw = EmptyFrame
    /\ monthly_prices = EmptyFrame
    /\ returns = EmptyFrame
    /\ regressions = <<>>
    /\ regression_df = EmptyFrame
    /\ table_data = <<>>
    /\ cell_call = NoCall
    /\ NothingShown
    /\ FreshProcess
    /\ NothingFitted

NextLoad == LoadData

SpecLoad == InitLoad /\ [][NextLoad]_vars

\* ------------------------------------------------------------------------
\* create_cell_value alone, on sampled coefficients, standard errors and
\* p-values.

CoefSamples == {123456, -1, 3125, 0, -150002, 99996}
SeSamples == {4321, 50000}
PSamples == {Fin(p) : p \in {0, 200, 500, 999, 1000, 1001, 3000, 4999, 5000,
                              5001, 8000, 9999, 10000, 10001, 50000, 100000}}
             \cup {NaN}
CanonicalVars == {"const", "SP500", "VW", "TYX"}

\* A fit of model 1 whose every statistic is the given one.
OneFit(c, s, p) ==
    LET exog == <<"const", "SP500">>
    IN [endog |-> stock_ticker, row_labels |-> <<>>, nobs |-> 0,
        params |-> Series(exog, [j \in DOMAIN exog |-> Fin(c)]),
        bse |-> Series(exog, [j \in DOMAIN exog |-> Fin(s)]),
        pvalues |-> Series(exog, [j \in DOMAIN exog |-> p]),
        mse_resid |-> NaN, rsquared |-> NaN]

InitCell ==
    /\ pc = "cell"
    /\ start_date = 1
    /\ end_date = 1
    /\ calendar = [x \in Months \X Days |-> "full"]
    /\ raw = EmptyFrame
    /\ monthly_prices = EmptyFrame
    /\ returns = EmptyFrame
    /\ regressions = <<>>
    /\ regression_df = EmptyFrame
    /\ table_data = <<>>
    /\ \E c \in CoefSamples, s \in SeSamples, p \in PSamples, w \in CanonicalVars :
          cell_call = [NoCall EXCEPT !.reg = OneFit(c, s, p), !.var_name = w]
    /\ NothingShown
    /\ FreshProcess
    /\ NothingFitted

CreateCellValue ==
    /\ pc = "cell"
    /\ ~cell_call.done
    /\ cell_call' = [cell_call EXCEPT
                        !.done = TRUE,
                        !.ret = create_cell_value(cell_call.reg, cell_call.var_name),
                        !.pdf_ret = pdf_create_cell_value(cell_call.reg, cell_call.var_name)]
    /\ UNCHANGED <<pc, load_vars, table_vars, page_vars, chart_vars,
                   report_vars, fit_vars, process_vars>>

NextCell == CreateCellValue

SpecCell == InitCell /\ [][NextCell]_vars

\* ------------------------------------------------------------------------
\* The distribution fit and the data of the CDF chart alone, on sequences
\* of at most MaxLen returns.

MaxLen == 4

\* The doubles -0.02, 0.0, 0.01 and 0.025.
DataSamples == {-2000, 0, 1000, 2500}

SeqsUpTo(S, n) == UNION {[1..m -> S] : m \in 0..n}

InitFit ==
    /\ pc = "fit"
    /\ start_date = 1
    /\ end_date = 1
    /\ calendar = [x \in Months \X Days |-> "full"]
    /\ raw = EmptyFrame
    /\ monthly_prices = EmptyFrame
    /\ returns = EmptyFrame
    /\ regressions = <<>>
    /\ regression_df = EmptyFrame
    /\ table_data = <<>>
    /\ cell_call = NoCall
    /\ NothingShown
    /\ FreshProcess
    /\ sample \in SeqsUpTo(DataSamples, MaxLen)
    /\ fit_call = NoFit
    /\ cdf_call = NoFit

\* mu, sigma = norm.fit(stock_returns)
NormFit ==
    /\ pc = "fit"
    /\ ~fit_call.done
    /\ fit_call' = [done |-> TRUE, ret |-> norm_fit(sample)]
    /\ UNCHANGED <<pc, load_vars, table_vars, cell_call, page_vars, chart_vars,
                   report_vars, sample, cdf_call, process_vars>>

\* stock_sorted, p_stock of plot_cdf
CdfSeries ==
    /\ pc = "fit"
    /\ ~cdf_call.done
    /\ cdf_call' = [done |-> TRUE, ret |-> cdf_series(sample)]
    /\ UNCHANGED <<pc, load_vars, table_vars, cell_call, page_vars, chart_vars,
                   report_vars, sample, fit_call, process_vars>>

NextFit ==
    \/ NormFit
    \/ CdfSeries

SpecFit == InitFit /\ [][NextFit]_vars

\* ------------------------------------------------------------------------
\* generate_pdf_report alone: at most MaxCalls calls on one set of
\* arguments, a ReturnSeries of up to ReportMonths - 1 rows and a list of
\* up to five regression results.

ReportMonths == 3
MaxCalls == 2

FullCalendar == [x \in Months \X Days |-> "full"]

\* The ReturnSeries load_data returns on the first m fully quoted months.
ReportReturns(m) ==
    load_returns(load_monthly_prices(load_raw(FullCalendar, 1, m)))

InitReport ==
    /\ pc = "assemble"
    /\ start_date = 1
    /\ end_date \in 1..ReportMonths
    /\ calendar = FullCalendar
    /\ raw = load_raw(calendar, start_date, end_date)
    /\ monthly_prices = load_monthly_prices(raw)
    /\ returns = load_returns(monthly_prices)
    /\ \E k \in FitDraws, m \in 0..5 :
          regressions = SubSeq(run_regressions(ReportReturns(ReportMonths), k), 1, m)
    /\ regression_df = EmptyFrame
    /\ table_data = <<>>
    /\ cell_call = NoCall
    /\ outputs = <<>>
    /\ error = ""
    /\ fig_normal = plot_normal_distribution(returns)
    /\ fig_cdf = plot_cdf(returns)
    /\ figs = subplots(subplots(<<>>, fig_normal.title), fig_cdf.title)
    /\ runs = 1
    /\ elements = <<>>
    /\ reports = <<>>
    /\ NothingFitted

\* One call of generate_pdf_report, at a time of the clock not before the
\* calls made so far.
GeneratePdfReportAlone ==
    /\ pc = "assemble"
    /\ Len(reports) < MaxCalls
    /\ \E now \in Clock :
          /\ \A i \in DOMAIN reports : reports[i].now <= now
          /\ elements' = generate_pdf_report(returns, regressions, fig_normal,
                             fig_cdf, date_text(start_date),
                             date_text(end_date), now)
          /\ reports' = Append(reports, [now |-> now, elements |-> elements'])
    /\ table_data' = pdf_table_data(regressions)
    /\ UNCHANGED <<pc, load_vars, regressions, regression_df, cell_call,
                   page_vars, chart_vars, fit_vars, process_vars>>

NextReport == GeneratePdfReportAlone

SpecReport == InitReport /\ [][NextReport]_vars

\* ------------------------------------------------------------------------
\* Properties.

Regressed == pc \in {"regressed", "tabled", "normal", "cdf", "report"}
Tabled == pc \in {"tabled", "normal", "cdf", "report"}

\* The factor subsets of the five models, as the specification lists them.
FactorSubset(i) ==
    CASE i = 1 -> {"SP500"}
      [] i = 2 -> {"VW"}
      [] i = 3 -> {"TYX"}
      [] i = 4 -> {"SP500", "VW"}
      [] i = 5 -> {"SP500", "VW", "TYX"}

Factors(reg) == Range(reg.params.index) \ {"const"}

\* C1: run_regressions returns exactly five fitted models, model i
\* regressing the target column on exactly the i-th of the factor subsets
\* {SP500}, {VW}, {TYX}, {SP500,VW}, {SP500,VW,TYX}, whatever the data.
C1_FiveModelsInFixedOrder ==
    Regressed =>
        /\ Len(regressions) = 5
        /\ \A i \in 1..5 :
              /\ regressions[i].endog = stock_ticker
              /\ Factors(regressions[i]) = FactorSubset(i)

C1_Witness ==
    /\ pc = "regressed"
    /\ Len(returns.rows) >= 5
    /\ Factors(regressions[5]) = {"SP500", "VW", "TYX"}

\* The stars of a finite p-value p (units of 10^-5), as the specification
\* states them.
ClaimStars(p) ==
    IF p < 1000 THEN "***"
    ELSE IF p < 5000 THEN "**"
    ELSE IF p < 10000 THEN "*"
    ELSE ""

StarCount(s) ==
    CASE s = "***" -> 3
      [] s = "**" -> 2
      [] s = "*" -> 1
      [] OTHER -> 0

CellPresent ==
    /\ pc = "cell"
    /\ cell_call.done
    /\ contains(cell_call.reg.params, cell_call.var_name)
    /\ get(cell_call.reg.pvalues, cell_call.var_name, NaN).kind = "fin"

CellVal == get(cell_call.reg.params, cell_call.var_name, NaN)
CellSe == get(cell_call.reg.bse, cell_call.var_name, NaN)
CellP == get(cell_call.reg.pvalues, cell_call.var_name, NaN)

\* C2: the marker of a cell, on screen and in the PDF, is "***" for
\* p < 0.01, "**" for 0.01 <= p < 0.05, "*" for 0.05 <= p < 0.10 and empty
\* for p >= 0.10, and no larger p-value gets more stars.
C2_StarsByThreshold ==
    CellPresent =>
        /\ cell_call.ret =
              Fmt4(CellVal) \o ClaimStars(CellP.v) \o " (" \o Fmt4(CellSe) \o ")"
        /\ cell_call.pdf_ret =
              Fmt4(CellVal) \o ClaimStars(CellP.v) \o " (" \o Fmt4(CellSe) \o ")"
        /\ \A q \in PSamples :
              (q.kind = "fin" /\ q.v >= CellP.v) =>
                  /\ StarCount(significance(q)) <= StarCount(significance(CellP))
                  /\ StarCount(pdf_significance(q)) <= StarCount(pdf_significance(CellP))

C2_Witness ==
    /\ CellPresent
    /\ CellP.v = 1000
    /\ cell_call.ret = "1.2346** (0.0432)"

\* The specification of model i: the intercept and its factor subset.
Specification(i) == {"const"} \cup FactorSubset(i)

\* The variables of the four cells of a row, in column order.
CellVars == <<"const", "SP500", "VW", "TYX">>

\* C3: row i of the formatted table is labelled "(i)" and has its cells in
\* the order intercept, SP500, VW, TYX, and the cell of a variable is empty
\* if and only if the variable is not part of the specification of model i.
C3_CellEmptyIffNotInSpecification ==
    Tabled =>
        /\ Len(regression_df.rows) = 5
        /\ \A i \in 1..5 :
              /\ regression_df.rows[i][1] = Label(i)
              /\ \A c \in 1..4 :
                    (regression_df.rows[i][c + 1] = "")
                        <=> (CellVars[c] \notin Specification(i))

\* C4: the table on screen and the table of the PDF are the same, cell for
\* cell: the same headers in the same order, the same rows in the same
\* order, the same string in every cell.
C4_ScreenAndPdfTablesAgree ==
    pc = "report" =>
        /\ table_data[1] = regression_df.columns
        /\ Len(table_data) = Len(regression_df.rows) + 1
        /\ \A i \in DOMAIN regression_df.rows :
              table_data[i + 1] = regression_df.rows[i]

C4_Witness ==
    /\ pc = "report"
    /\ Len(table_data) = 6
    /\ table_data[2][3] = "1.2346*** (0.0432)"
    /\ table_data[6][5] # ""

\* f"{x:.4f}" of the sampled coefficients and standard errors, as Python
\* prints them.
PythonFmt4(v) ==
    CASE v = 123456 -> "1.2346"
      [] v = -1 -> "-0.0000"
      [] v = 3125 -> "0.0312"
      [] v = 0 -> "0.0000"
      [] v = -150002 -> "-1.5000"
      [] v = 99996 -> "1.0000"
      [] v = 4321 -> "0.0432"
      [] v = 50000 -> "0.5000"

\* C5: the cell of a present variable is the coefficient rounded to 4
\* decimals, the stars of p, one space, and the standard error rounded to 4
\* decimals in parentheses; c = 1.23456, s = 0.04321, p = 0.002 gives
\* "1.2346*** (0.0432)".
C5_CellFormat ==
    CellPresent =>
        /\ cell_call.ret = PythonFmt4(CellVal.v) \o ClaimStars(CellP.v)
                              \o " (" \o PythonFmt4(CellSe.v) \o ")"
        /\ (CellVal.v = 123456 /\ CellSe.v = 4321 /\ CellP.v = 200)
              => cell_call.ret = "1.2346*** (0.0432)"

C5_Witness ==
    /\ CellPresent
    /\ CellVal.v = 123456
    /\ CellSe.v = 4321
    /\ CellP.v = 200
    /\ cell_call.ret = "1.2346*** (0.0432)"

\* C6: the five models are estimated on the same rows: each has the rows
\* of the ReturnSeries, and so its number of rows, as its observations.
C6_SameObservations ==
    Regressed =>
        \A i \in DOMAIN regressions :
            /\ regressions[i].nobs = Len(returns.rows)
            /\ regressions[i].row_labels =
                  [r \in DOMAIN returns.rows |-> returns.rows[r].date]
            /\ regressions[i].nobs = regressions[1].nobs

C6_Witness ==
    /\ pc = "regressed"
    /\ Len(returns.rows) = 3
    /\ \A i \in 1..5 : regressions[i].nobs = 3

\* C3 on the factor cells alone: the factor cells of row i that are not
\* empty are exactly those of the factor subset of model i.
C3_FactorCells ==
    Tabled =>
        \A i \in 1..5 : \A c \in 2..4 :
            (regression_df.rows[i][c + 1] # "") <=> (CellVars[c] \in FactorSubset(i))

\* ------------------------------------------------------------------------
\* Properties of load_data.

\* What the data source returned, under the labels load_data gives it.
Downloaded == set_columns(download(calendar, start_date, end_date), columns)

DownloadedInMonth(m) == SelectRows(LAMBDA r : r.date[1] = m, Downloaded.rows)

\* The days of month m on which all four series have a price.
CompleteDays(m) == {d \in Days : calendar[<<m, d>>] = "full"}

Max(S) == CHOOSE x \in S : \A y \in S : y <= x

DownloadedOn(m, d) == CHOOSE r \in Range(Downloaded.rows) : r.date = <<m, d>>

\* C7 as stated: the month-end price of every series is the last daily
\* observation of that series in the month, whether or not another series
\* has a price on that day.
C7_OwnLastObservation ==
    pc = "loaded" =>
        \A i \in DOMAIN monthly_prices.rows : \A j \in 1..4 :
            LET row == monthly_prices.rows[i]
            IN ~isna(row.vals[j]) =>
                  row.vals[j] = LastValid(DownloadedInMonth(row.date), j)

\* C7 as amended: the month-end price of every series is its price on the
\* last day of the month on which all four series have a price, and a
\* month with no such day has no month-end price.
C7_LastCommonObservation ==
    pc = "loaded" =>
        \A i \in DOMAIN monthly_prices.rows : \A j \in 1..4 :
            LET row == monthly_prices.rows[i]
            IN row.vals[j] =
                  IF CompleteDays(row.date) = {} THEN NaN
                  ELSE DownloadedOn(row.date, Max(CompleteDays(row.date))).vals[j]

C7_Witness ==
    /\ pc = "loaded"
    /\ calendar[<<2, 1>>] = "full"
    /\ calendar[<<2, 2>>] = "no_tyx"
    /\ \E i \in DOMAIN monthly_prices.rows :
          /\ monthly_prices.rows[i].date = 2
          /\ monthly_prices.rows[i].vals[1] = Fin(Quote(stock_ticker, 2, 1))

MonthlyRow(m) == CHOOSE r \in Range(monthly_prices.rows) : r.date = m
HasMonthlyRow(m) == \E r \in Range(monthly_prices.rows) : r.date = m

\* The month a month-end price was quoted in.
MonthOfQuote(p) == (p % 1000) \div 10

\* C8: the row of month t is computed from the month-end prices of t and
\* of the calendar month before t, and the first month of the price
\* history is no row of the ReturnSeries.
C8_ConsecutiveMonths ==
    pc = "loaded" =>
        \A i \in DOMAIN returns.rows :
            LET t == returns.rows[i].date
            IN /\ HasMonthlyRow(t)
               /\ HasMonthlyRow(t - 1)
               /\ t # monthly_prices.rows[1].date
               /\ \A j \in 1..4 :
                     /\ returns.rows[i].vals[j] =
                           LogRatio(MonthlyRow(t).vals[j], MonthlyRow(t - 1).vals[j])
                     /\ MonthOfQuote(returns.rows[i].vals[j].v[1]) = t
                     /\ MonthOfQuote(returns.rows[i].vals[j].v[2]) = t - 1

\* Month 3 has no data: month 2 is a row, computed from months 2 and 1,
\* and month 4 is none.
C8_Witness ==
    /\ pc = "loaded"
    /\ Len(monthly_prices.rows) = 4
    /\ HasNa(monthly_prices.rows[3])
    /\ ~HasNa(monthly_prices.rows[4])
    /\ Len(returns.rows) = 1
    /\ returns.rows[1].date = 2

\* Every series has a return in month m.
AllReturns(m) ==
    /\ HasMonthlyRow(m) /\ ~HasNa(MonthlyRow(m))
    /\ HasMonthlyRow(m - 1) /\ ~HasNa(MonthlyRow(m - 1))

\* C9: the dates of the ReturnSeries increase strictly, no value of its
\* four columns is missing, and a month in which a series has no return is
\* no row of it.
C9_IncreasingAndComplete ==
    pc = "loaded" =>
        /\ \A i, k \in DOMAIN returns.rows :
              i < k => returns.rows[i].date < returns.rows[k].date
        /\ \A i \in DOMAIN returns.rows :
              /\ DOMAIN returns.rows[i].vals = 1..4
              /\ ~HasNa(returns.rows[i])
        /\ \A m \in 1..LoadMonths :
              ~AllReturns(m) => \A i \in DOMAIN returns.rows : returns.rows[i].date # m

\* Month 2 has no price: months 2 and 3 have no return and are dropped.
C9_Witness ==
    /\ pc = "loaded"
    /\ Len(monthly_prices.rows) = 4
    /\ HasNa(monthly_prices.rows[2])
    /\ Len(returns.rows) = 1
    /\ returns.rows[1].date = 4

\* The ticker each column of the ReturnSeries is documented to hold.
ClaimTicker(label) ==
    CASE label = "SP500" -> "^GSPC"
      [] label = "VW" -> "^W5000"
      [] label = "TYX" -> "^TYX"
      [] OTHER -> stock_ticker

\* The ticker a price was quoted for.
TickerOfQuote(p) == tickers[p \div 1000]

\* C10: column SP500 holds the returns of ^GSPC, column VW those of ^W5000,
\* column TYX those of ^TYX and the target column those of the requested
\* ticker.
C10_ColumnsHoldTheirTickers ==
    pc = "loaded" =>
        \A i \in DOMAIN returns.rows : \A j \in DOMAIN returns.columns :
            /\ TickerOfQuote(returns.rows[i].vals[j].v[1]) = ClaimTicker(returns.columns[j])
            /\ TickerOfQuote(returns.rows[i].vals[j].v[2]) = ClaimTicker(returns.columns[j])

\* ------------------------------------------------------------------------
\* Errors of the run.

\* The run is past load_data.
Loaded == pc \in {"loaded", "crashed", "metrics"} \/ Regressed

\* C11: if fewer than 2 rows remain in the ReturnSeries that load_data
\* builds (0 rows or 1 row), the build fails with DataUnavailable and
\* run_regressions is not invoked in that run.
C11_TooFewRowsEndTheRun ==
    (Loaded /\ Len(returns.rows) < 2) =>
        (error = "DataUnavailable" /\ ~Regressed)

\* The outputs of the pipeline that the claim names.
PipelineOutputs == {"metric", "dataframe", "pyplot", "download_button"}

\* C12: when the prices yield too few aligned observations (fewer than 2
\* rows of returns), the run shows none of the outputs of the pipeline: no
\* metric, no regression table, no chart and no download.
C12_NoOutputOnTooFewRows ==
    (Loaded /\ Len(returns.rows) < 2) =>
        \A i \in DOMAIN outputs : outputs[i].kind \notin PipelineOutputs

\* The fit of model j cannot be determined: it has no more observations
\* than coefficients (n <= k).
FitFails(j) == regressions[j].nobs <= Len(regressions[j].params.index)

\* The slot of a failed fit as the claim describes it: marked invalid, with
\* the index of the model.
MarkedInvalid(reg, j) ==
    /\ "valid" \in DOMAIN reg
    /\ "index" \in DOMAIN reg
    /\ reg.valid = FALSE
    /\ reg.index = j

\* C13: if the fit of one of the five models fails (n <= k), the engine
\* returns the results of the other models with only the slot of the
\* failed model marked invalid and its index named.
C13_FailedFitIsMarked ==
    (pc = "regressed") =>
        \A j \in DOMAIN regressions :
            FitFails(j) <=> MarkedInvalid(regressions[j], j)
\* ------------------------------------------------------------------------
\* The distribution fit and the CDF data, on the sequences of SpecFit.

Identical(s) == \A i \in DOMAIN s : s[i] = s[1]

SumOfSquares(s) == Sum([i \in DOMAIN s |-> s[i] * s[i]])

\* mu is the arithmetic mean of the values, to the rounding of mu.err.
IsMean(mu, s) ==
    /\ mu.kind = "fin"
    /\ mu.den > 0
    /\ mu.num * Len(s) = Sum(s) * mu.den

\* sigma^2 is the sum of the squared deviations from the mean over n: with
\* S the sum of the n values, (n sum(x^2) - S^2) / n^2, to the rounding of
\* sigma.err.
IsPopulationDeviation(sigma, s) ==
    LET n == Len(s)
    IN /\ sigma.kind = "fin"
       /\ sigma.den = n * n * n
       /\ sigma.num = n * (n * SumOfSquares(s) - Sum(s) * Sum(s))

\* C14 as stated: for every non-empty sequence of n returns the fit
\* returns mu equal to the arithmetic mean and sigma equal to the
\* population standard deviation, and for n identical values sigma is
\* exactly 0.
C14_SigmaOfIdenticalValuesIsZero ==
    (fit_call.done /\ sample # <<>>) =>
        /\ IsMean(fit_call.ret.mu, sample)
        /\ IsPopulationDeviation(fit_call.ret.sigma, sample)
        /\ Identical(sample) => IsZero(fit_call.ret.sigma)

\* C14, amended: for every non-empty sequence of n returns the fit returns
\* mu equal to the mean and sigma equal to the population standard
\* deviation (squares averaged over n, not n - 1), as double arithmetic
\* computes them.  For n identical values x sigma is the distance of the
\* computed mean from x: exactly 0 where the mean of the doubles is x again
\* (always for n <= 2 and for x = 0.0), and a rounding residue where it is
\* not.
C14_PopulationDeviation ==
    (fit_call.done /\ sample # <<>>) =>
        /\ IsMean(fit_call.ret.mu, sample)
        /\ IsPopulationDeviation(fit_call.ret.sigma, sample)
        /\ Identical(sample) =>
              /\ fit_call.ret.sigma.num = 0
              /\ fit_call.ret.sigma.err = mean_error(sample[1], Len(sample))
              /\ fit_call.ret.sigma.err = fit_call.ret.mu.err
              /\ (Len(sample) <= 2 \/ sample[1] = 0) => IsZero(fit_call.ret.sigma)
        /\ ~Identical(sample) => fit_call.ret.sigma.num > 0

\* Three equal returns whose fitted sigma is not 0.0.
C14_Witness ==
    /\ fit_call.done
    /\ Len(sample) = 3
    /\ Identical(sample)
    /\ ~IsZero(fit_call.ret.sigma)

\* C15: when the sequence of returns has zero length the fit fails with an
\* EmptySeries error instead of returning a (mu, sigma) pair.
C15_EmptyFitRaises ==
    (fit_call.done /\ sample = <<>>) =>
        /\ error = "EmptySeries"
        /\ "mu" \notin DOMAIN fit_call.ret

\* The number of values of s that satisfy Test.
Count(s, Test(_)) == Cardinality({i \in DOMAIN s : Test(s[i])})

\* The values of s with their multiplicities.
AsBag(s) == [v \in Range(s) |-> Count(s, LAMBDA x : x = v)]

Ascending(s) == \A i, j \in DOMAIN s : i <= j => s[i] <= s[j]

\* The fraction a is at most the fraction b (positive denominators).
FracLeq(a, b) == a[1] * b[2] <= b[1] * a[2]

\* C16: for every sequence of n >= 1 returns the CDF data pairs the values
\* sorted ascending with the probabilities p_i = i / (n - 1), i = 0..n-1,
\* when n > 1 and the single probability 0.0 when n = 1; the probabilities
\* are non-decreasing, lie in [0, 1], start at 0.0 and, for n > 1, end at
\* 1.0.
C16_SortedWithEvenProbabilities ==
    (cdf_call.done /\ sample # <<>>) =>
        LET n == Len(sample)
            sorted == cdf_call.ret.sorted
            p == cdf_call.ret.p
        IN /\ Len(sorted) = n
           /\ AsBag(sorted) = AsBag(sample)
           /\ Ascending(sorted)
           /\ Len(p) = n
           /\ \A i \in 1..n : p[i][2] > 0
           /\ n = 1 => p[1][1] = 0
           /\ n > 1 => \A i \in 1..n : p[i][1] * (n - 1) = (i - 1) * p[i][2]
           /\ \A i, j \in 1..n : i <= j => FracLeq(p[i], p[j])
           /\ \A i \in 1..n : FracLeq(<<0, 1>>, p[i]) /\ FracLeq(p[i], <<1, 1>>)
           /\ p[1][1] = 0
           /\ n > 1 => p[n][1] = p[n][2]

\* The CDF data of three or more returns that were not in order.
C16_Witness ==
    /\ cdf_call.done
    /\ Len(sample) >= 3
    /\ ~Ascending(sample)
    /\ cdf_call.ret.p[Len(sample)] = <<Len(sample) - 1, Len(sample) - 1>>

Below(v) == Count(sample, LAMBDA x : x < v)
AtOrBelow(v) == Count(sample, LAMBDA x : x <= v)

\* C17 as stated: the cumulative probability of every observed value v is
\* the fraction of the sample at or below v; two equal observations get
\* the same probability.
C17_FractionAtOrBelow ==
    (cdf_call.done /\ sample # <<>>) =>
        LET n == Len(sample)
            sorted == cdf_call.ret.sorted
            p == cdf_call.ret.p
        IN /\ \A i \in 1..n : p[i][1] * n = AtOrBelow(sorted[i]) * p[i][2]
           /\ \A i, j \in 1..n : sorted[i] = sorted[j] => p[i] = p[j]

\* C17, amended: the probability of an observation is its rank, not a
\* fraction of the sample: the i-th smallest of n > 1 observations gets
\* (i - 1) / (n - 1).  So the probability of an observation v times n - 1
\* is at least the number of observations below v and less than the number
\* at or below v; equal observations get different probabilities, one for
\* each; and a single observation gets 0, not 1.
C17_RankOverNMinusOne ==
    (cdf_call.done /\ sample # <<>>) =>
        LET n == Len(sample)
            sorted == cdf_call.ret.sorted
            p == cdf_call.ret.p
        IN /\ \A i \in 1..n :
                 /\ p[i][2] = (IF n = 1 THEN 1 ELSE n - 1)
                 /\ Below(sorted[i]) <= p[i][1]
                 /\ p[i][1] < AtOrBelow(sorted[i])
           /\ \A i, j \in 1..n : i # j => p[i] # p[j]
           /\ \A v \in Range(sample) :
                 Cardinality({p[i] : i \in {k \in 1..n : sorted[k] = v}})
                     = AtOrBelow(v) - Below(v)

\* The CDF data of a sample with two equal returns and a smaller one.
C17_Witness ==
    /\ cdf_call.done
    /\ Len(sample) = 3
    /\ sample[1] = sample[3]
    /\ sample[2] < sample[1]
    /\ cdf_call.ret.p[2] # cdf_call.ret.p[3]
\* ------------------------------------------------------------------------
\* The sections of the report.

IsBreak(e) == e.type = "PageBreak"
IsTable(e) == e.type = "Table"
IsHeading(e, text) == e.type = "Paragraph" /\ e.text = text

\* The positions of the elements of doc that satisfy Test.
Positions(doc, Test(_)) == {i \in DOMAIN doc : Test(doc[i])}

\* The position of the first element after position i that is not a
\* spacer; 0 if there is none.
NextFlowable(doc, i) ==
    LET after == {j \in DOMAIN doc : j > i /\ doc[j].type # "Spacer"}
    IN IF after = {} THEN 0
       ELSE CHOOSE j \in after : \A k \in after : j <= k

\* The text of the footer of a report generated in second s.
FooterText(s) ==
    "Generated: second " \o ToString(s) \o " | Data Source: Yahoo Finance"

IsFooter(e) ==
    /\ e.type = "Paragraph"
    /\ e.style = "Footer"
    /\ \E s \in 0..MaxClock : e.text = FooterText(s)

\* The elements of doc follow the order of the sections: title, narrative,
\* regression table and legend, page break, normal distribution, page
\* break, CDF, footer.
InSectionOrder(doc) ==
    LET breaks == Positions(doc, IsBreak)
        tables == Positions(doc, IsTable)
        b1 == CHOOSE i \in breaks : \A j \in breaks : i <= j
        b2 == CHOOSE i \in breaks : \A j \in breaks : j <= i
        t == CHOOSE i \in tables : TRUE
        narrative == CHOOSE i \in DOMAIN doc :
                        IsHeading(doc[i], "Why This Analysis Matters")
    IN /\ doc[1].type = "Paragraph" /\ doc[1].style = "CustomTitle"
       /\ Cardinality(Positions(doc,
              LAMBDA e : IsHeading(e, "Why This Analysis Matters"))) = 1
       /\ Cardinality(tables) = 1
       /\ Cardinality(breaks) = 2
       /\ 1 < narrative /\ narrative < t /\ t < b1
       /\ NextFlowable(doc, t) # 0
       /\ IsHeading(doc[NextFlowable(doc, t)], legend)
       /\ IsHeading(doc[b1 + 1], "Normal Distribution Fit")
       /\ Positions(doc, LAMBDA e : e.type = "Image" /\ e.fig = fig_normal)
             \cap (b1 + 1)..(b2 - 1) # {}
       /\ IsHeading(doc[b2 + 1], "Cumulative Distribution Function (CDF)")
       /\ Positions(doc, LAMBDA e : e.type = "Image" /\ e.fig = fig_cdf)
             \cap (b2 + 1)..Len(doc) # {}
       /\ Positions(doc, LAMBDA e : e.type = "Image") \cap 1..b1 = {}
       /\ Positions(doc, IsFooter) = {Len(doc)}

\* C18: the elements of every generated report follow the fixed order of
\* the sections: title, narrative, regression table followed by its
\* significance legend, a page break, the normal-distribution section, a
\* page break, the CDF section, and last the footer with the time of
\* generation and the data source; the report has exactly two page breaks
\* and nothing follows the footer.
C18_SectionOrder ==
    (pc = "report") => InSectionOrder(elements)

\* A report of a page run whose table has the rows of the five models.
C18_Witness ==
    /\ pc = "report"
    /\ Len(elements) > 100
    /\ \E i \in DOMAIN elements :
          /\ elements[i].type = "Table"
          /\ Len(elements[i].data) = 6
\* ------------------------------------------------------------------------
\* The calls of generate_pdf_report alone, on the arguments of SpecReport.

\* The rows of the models in the regression table of a report.
ModelRows(doc) ==
    LET t == CHOOSE i \in DOMAIN doc : doc[i].type = "Table"
    IN Len(doc[t].data) - 1

\* The distribution fit on the returns of the report yields no numbers.
FitUnavailable == stock_returns(returns) = <<>>

\* C19: report assembly fails with IncompleteInput, producing no report,
\* whenever fewer than five regression results are supplied or the
\* distribution fit is unavailable; no report has a regression table of
\* fewer than five model rows.
C19_IncompleteInputGivesNoReport ==
    /\ (Len(regressions) < 5 \/ FitUnavailable) => reports = <<>>
    /\ \A i \in DOMAIN reports : ModelRows(reports[i].elements) >= 5

\* The second in which a call was made.
SecondOf(report) == report.now \div TicksPerSecond

\* The elements of a report before its footer paragraph.
Body(doc) == SubSeq(doc, 1, Len(doc) - 1)

Download(label) ==
    LET i == CHOOSE i \in DOMAIN outputs :
                 outputs[i].kind = "download_button" /\ outputs[i].label = label
    IN outputs[i].value

\* The texts with four decimals that float() reads as a number in [0, 1].
UnitTexts == {Fmt4(Fin(10 * v)) : v \in 0..10000} \cup {"-0.0000"}

\* C21: the regression-summary CSV of the five fitted models has exactly 6
\* lines: the header Model, R-squared, Adj R-squared, F-statistic,
\* Observations, then one line per model in model order labelled (1)..(5);
\* each R-squared field parses as a number in [0, 1].
C21_SummaryCsv ==
    (pc = "report") =>
        LET csv == Download("Regression Summary (CSV)")
        IN /\ Len(csv) = 6
           /\ csv[1] = <<"Model", "R-squared", "Adj R-squared", "F-statistic",
                         "Observations">>
           /\ \A i \in 1..5 :
                 /\ Len(csv[i + 1]) = 5
                 /\ csv[i + 1][1] = "(" \o ToString(i) \o ")"
                 /\ csv[i + 1][2] \in UnitTexts
\* ------------------------------------------------------------------------
\* The process over successive page loads.

\* C22: no figure made by one run is still held in the registry of the
\* plotting library when a later run starts, so the number of figures the
\* process retains does not grow with the number of runs: it never holds
\* more than the two figures of the run in progress.
C22_NoRetainedFigures ==
    /\ (pc = "start") => figs = <<>>
    /\ Len(figs) <= 2
\* ------------------------------------------------------------------------
\* The stages of one page run.

\* The positions at which a function of masco_2025.py that is handed the
\* ReturnSeries, and one that is handed the regression results, is called.
TakesReturns == {"metrics", "tabled", "normal", "cdf"}
TakesRegressions == {"regressed", "cdf"}

\* C23: run_regressions, create_regression_table_dataframe,
\* plot_normal_distribution, plot_cdf and generate_pdf_report each leave
\* the ReturnSeries and the list of regression results passed to them
\* unchanged on return: same rows, columns, names and values, same order
\* of the five results.
C23_ArgumentsUnchanged ==
    [][/\ (pc \in TakesReturns) => returns' = returns
       /\ (pc \in TakesRegressions) => regressions' = regressions]_vars

\* A run in which the five functions have returned, on returns of two or
\* more rows.
C23_Witness ==
    /\ pc = "report"
    /\ Len(returns.rows) >= 2
    /\ Len(regressions) = 5
    /\ Len(regression_df.rows) > 0
    /\ fig_normal # <<>>
    /\ fig_cdf # <<>>
    /\ elements # <<>>

\* The steps of a run: each stage hands over to the next, or ends the run.
StageOrder ==
    {<<"start", "loaded">>, <<"loaded", "metrics">>, <<"loaded", "crashed">>,
     <<"metrics", "regressed">>, <<"regressed", "tabled">>,
     <<"tabled", "normal">>, <<"tabled", "crashed">>,
     <<"normal", "cdf">>, <<"normal", "crashed">>,
     <<"cdf", "report">>}

InStageOrder == <<pc, pc'>> \in StageOrder

\* The outputs a stage puts on the page, by the label of the first.
Shown(label) == Cardinality({i \in DOMAIN outputs : outputs[i].label = label})

\* The first output of each stage that puts something on the page, in the
\* order of the stages.
StageLabels ==
    <<"Number of Observations", "Monthly Return Regressions",
      "Normal Distribution Fit", "Cumulative Distribution Function (CDF)",
      "Download Full Report as PDF", "Returns Data (CSV)",
      "Regression Summary (CSV)">>

\* The stages at whose end the run is at each position.
StagesDone(at) ==
    CASE at = "metrics" -> 1
      [] at = "regressed" -> 1
      [] at = "tabled" -> 2
      [] at = "normal" -> 3
      [] at = "cdf" -> 4
      [] at = "report" -> 7
      [] OTHER -> 0

\* Every stage has put its outputs on the page at most once, a stage only
\* after the stages before it, and the stages done are those before the
\* position of the run; a run that has failed has an error and stays where
\* it is; the results are there once the regressions have run.
StagesOnce ==
    /\ \A n \in DOMAIN StageLabels : Shown(StageLabels[n]) <= 1
    /\ \A n, m \in DOMAIN StageLabels :
          (n <= m /\ Shown(StageLabels[m]) = 1) => Shown(StageLabels[n]) = 1
    /\ (pc # "crashed") =>
          \A n \in DOMAIN StageLabels :
              Shown(StageLabels[n]) = (IF n <= StagesDone(pc) THEN 1 ELSE 0)
    /\ (pc = "crashed") <=> (error # "")
    /\ (pc = "crashed") => Shown("Download Full Report as PDF") = 0
    /\ Regressed => Len(regressions) = 5
    /\ ~(Regressed \/ pc = "crashed") => regressions = <<>>

\* The table on screen, the table of the PDF and the summary CSV are made
\* of the one list of results.
SameResults ==
    /\ Tabled => regression_df = create_regression_table_dataframe(regressions)
    /\ (pc = "report") =>
          /\ \E i \in DOMAIN elements :
                /\ elements[i].type = "Table"
                /\ elements[i].data = pdf_table_data(regressions)
          /\ Download("Download Full Report as PDF") = elements
          /\ Download("Regression Summary (CSV)") = csv_reg(regressions)

\* C24: within one run the stages execute at most once each and in the
\* fixed order load_data, run_regressions, table formatting,
\* normal-distribution chart, CDF chart, report assembly, exports; a stage
\* starts only after every earlier stage has succeeded, a failed stage is
\* never retried and after a failure no later stage executes; the same
\* five regression results feed the on-screen table, the PDF and the
\* summary CSV.
C24_StagesInOrder ==
    /\ [](StagesOnce /\ SameResults)
    /\ [][InStageOrder]_vars

\* A run that has gone through every stage.
C24_Witness ==
    /\ pc = "report"
    /\ error = ""
    /\ Len(returns.rows) >= 2
    /\ \A n \in DOMAIN StageLabels : Shown(StageLabels[n]) = 1
    /\ Len(outputs) = 21
\* The run has ended on an exception raised in the normal-distribution or
\* the CDF section.
ChartFailed == pc = "crashed" /\ error = "Exception"

\* C25: a failure of the distribution fit or of the distribution and CDF
\* charts affects only those sections: the regression table already
\* computed is still displayed, and the returns CSV and the
\* regression-summary CSV of the same run are still offered.
C25_ChartFailureKeepsExports ==
    ChartFailed =>
        /\ Shown("Monthly Return Regressions") = 1
        /\ Shown("Returns Data (CSV)") = 1
        /\ Shown("Regression Summary (CSV)") = 1
\* C26: for every ReturnSeries of at least one row, also one in which a
\* factor column has the same non-zero value in every row, each of the five
\* models is fitted with an intercept, and the intercept cell of each of
\* the five rows of the table is not empty.
C26_EveryModelHasAnIntercept ==
    (Tabled /\ Len(returns.rows) >= 1) =>
        \A i \in 1..5 :
            /\ contains(regressions[i].params, "const")
            /\ regression_df.rows[i][2] # ""
\* The value of the metric with the given label on the page.
Metric(label) ==
    LET i == CHOOSE i \in DOMAIN outputs :
                 outputs[i].kind = "metric" /\ outputs[i].label = label
    IN outputs[i].value

\* The text of the statistics of the target in the CDF section of the
\* report, with std as the standard deviation.
TargetStatistics(std) ==
    LET data == stock_returns(returns)
    IN "<b>" \o stock_ticker \o " Statistics:</b><br/>"
       \o "Mean: " \o Fmt4(series_mean(data)) \o ", Std Dev: " \o std
       \o ", Min: " \o Fmt4(series_min(data))
       \o ", Max: " \o Fmt4(series_max(data))
       \o "<br/><br/><b>S&P 500 Statistics:</b><br/>" \o statistics(sp(returns))

\* C27: within one page render and one report, the standard deviation of
\* the target returns shown in the normal-distribution section (sigma) and
\* the one shown as "Std Dev" in the CDF comparison statistics are the
\* same value.
C27_OneStandardDeviation ==
    (pc = "report") =>
        LET sigma == Metric("Standard Deviation (sigma)")
        IN /\ \E i \in DOMAIN outputs :
                 /\ outputs[i].kind = "write"
                 /\ outputs[i].label = stock_ticker
                 /\ outputs[i].value = "Std Dev: " \o sigma
           /\ \E i \in DOMAIN elements :
                 /\ elements[i].type = "Paragraph"
                 /\ elements[i].text = "Standard Deviation (sigma): " \o sigma
           /\ \E i \in DOMAIN elements :
                 /\ elements[i].type = "Paragraph"
                 /\ elements[i].text = TargetStatistics(sigma)

====
